---- MODULE Spec2Model ----
(***************************************************************************)
(* Model of vllm/model_executor/models/gpt_bigcode.py: the ragged-to-      *)
(* padded repacking done in "bmm" mode, the adapter modes of the attention *)
(* and feed-forward sub-modules, and the tensor-parallel loading of the    *)
(* fused QKV weights.                                                      *)
(*                                                                         *)
(* A 2-D tensor [n, dim] is a record [dim |-> feature dimension, val |->   *)
(* sequence of n row values]; a row value is an integer that stands for    *)
(* the whole feature vector of the row, 0 being the zero vector.           *)
(***************************************************************************)
EXTENDS Integers, Sequences, FiniteSets, TLC

\* ---------------------------------------------------------------- bounds
MaxRows == 4
MaxPrompts == 2
MaxHidden == 4
MaxHeads == 2
MaxWorld == 2
MaxRank == 2
MaxFwdRows == 2
MaxKernelCalls == 2

\* ---------------------------------------------------------------- helpers
RECURSIVE SeqSum(_)
SeqSum(s) == IF s = <<>> THEN 0 ELSE s[1] + SeqSum(Tail(s))

RECURSIVE SeqMax(_)
SeqMax(s) == IF Len(s) = 1 THEN s[1]
             ELSE LET m == SeqMax(Tail(s)) IN IF s[1] > m THEN s[1] ELSE m

RECURSIVE Concat(_)
Concat(ss) == IF ss = <<>> THEN <<>> ELSE ss[1] \o Concat(Tail(ss))

\* All sequences over S of length 0..n.
SeqsUpTo(S, n) == UNION {[1..k -> S] : k \in 0..n}

\* ------------------------------------------------- batches (InputMetadata)
\* hidden_states has `rows` rows; row k carries the value k, so that every
\* row can be told from every other one and from the zero row.
hidden_states(b) == [k \in 1..b.rows |-> k]

num_prompts(b) == Len(b.prompt_lens)

\* The batches of the PackedBatch invariant:
\* sum(prompt_lens) <= num_valid_tokens <= hidden_states.size(0),
\* every prompt and every batch holding at least one token.
Batches(maxRows, maxPrompts) ==
    {b \in [rows : 1..maxRows,
            prompt_lens : SeqsUpTo(1..maxRows, maxPrompts),
            num_valid_tokens : 1..maxRows] :
        /\ SeqSum(b.prompt_lens) <= b.num_valid_tokens
        /\ b.num_valid_tokens <= b.rows}

\* ------------------------------------------------------------- repacking
padded_length(b) == b.rows - b.num_valid_tokens

sequence_lengths(b) ==
    IF num_prompts(b) > 0
    THEN [b.prompt_lens EXCEPT ![Len(b.prompt_lens)] = @ + padded_length(b)]
    ELSE [i \in 1..b.rows |-> 1]

max_seq_length(b) ==
    IF num_prompts(b) > 0 THEN SeqMax(sequence_lengths(b)) ELSE 1

batch_size(b) == IF num_prompts(b) > 0 THEN num_prompts(b) ELSE b.rows

\* range_tensor[i][t] is the 0-based time t-1 in every sequence i.
range_tensor(b) ==
    [i \in 1..batch_size(b) |-> [t \in 1..max_seq_length(b) |-> t - 1]]

mask(b) ==
    LET r == range_tensor(b)
        sl == sequence_lengths(b)
    IN  [i \in 1..batch_size(b) |->
            [t \in 1..max_seq_length(b) |-> r[i][t] < sl[i]]]

\* row_indices without the "- 1": the running count itself.
row_indices_from_one(b) ==
    LET m == mask(b) IN
    [i \in 1..batch_size(b) |->
        [t \in 1..max_seq_length(b) |->
            Cardinality({u \in 1..t : m[i][u]})]]

\* mask.cumsum(dim=1) - 1
row_indices(b) ==
    LET m == mask(b) IN
    [i \in 1..batch_size(b) |->
        [t \in 1..max_seq_length(b) |->
            Cardinality({u \in 1..t : m[i][u]}) - 1]]

\* cat([0], sequence_lengths.cumsum(0)[:-1])
cumulative_lengths(b) ==
    LET sl == sequence_lengths(b) IN
    [i \in 1..batch_size(b) |-> SeqSum(SubSeq(sl, 1, i - 1))]

start_positions(b) ==
    LET cl == cumulative_lengths(b) IN
    [i \in 1..batch_size(b) |-> [t \in 1..max_seq_length(b) |-> cl[i]]]

adjusted_row_indices(b) ==
    LET r == row_indices(b)
        s == start_positions(b)
    IN  [i \in 1..batch_size(b) |->
            [t \in 1..max_seq_length(b) |-> r[i][t] + s[i][t]]]

\* adjusted_row_indices[mask]: the entries at the True slots, row-major.
masked_indices(b) ==
    LET m == mask(b)
        a == adjusted_row_indices(b)
        n == max_seq_length(b)
    IN  Concat([i \in 1..batch_size(b) |->
            LET RECURSIVE pick(_)
                pick(t) == IF t > n THEN <<>>
                           ELSE (IF m[i][t] THEN <<a[i][t]>> ELSE <<>>)
                                    \o pick(t + 1)
            IN pick(1)])

\* An index assignment dst[idx] = src needs one source row per index, or a
\* single source row that is broadcast.
index_put_ok(nidx, nsrc) == nsrc = nidx \/ nsrc = 1

\* inputs = zeros(batch_size * max_seq_length, .); inputs[idx] = src.
\* idx holds 0-based flat rows of the zero buffer.
scatter(b, src) ==
    LET idx == masked_indices(b) IN
    [p \in 1..(batch_size(b) * max_seq_length(b)) |->
        IF \E k \in 1..Len(idx) : idx[k] = p - 1
        THEN LET k == CHOOSE k \in 1..Len(idx) : idx[k] = p - 1
             IN IF Len(src) = 1 THEN src[1] ELSE src[k]
        ELSE 0]

\* inputs.view(batch_size, max_seq_length, .): slot [i][t] is flat row
\* (i-1) * max_seq_length + (t-1).
view(b, flat) ==
    LET f == flat
        n == max_seq_length(b)
    IN  [i \in 1..batch_size(b) |->
            [t \in 1..n |-> f[(i - 1) * n + (t - 1) + 1]]]

\* The pack step of a "bmm" forward call on the rows src.
pack(b, src) ==
    IF index_put_ok(Len(masked_indices(b)), Len(src))
    THEN [status |-> "ok", inputs |-> view(b, scatter(b, src))]
    ELSE [status |-> "RuntimeError", inputs |-> <<>>]

\* The inverse gather of the specification: the rectangular rows at the
\* slots pack wrote, in flat row order.
unpack(b, rect) ==
    LET flat == Concat(rect)
        idx == masked_indices(b)
    IN  [k \in 1..Len(idx) |-> flat[idx[k] + 1]]

\* ---------------------------------------------------------- configuration
\* GPTBigCodeConfig with n_inner unset (the block then uses 4 * hidden_size),
\* and the tensor-parallel world the process runs in.
Configs ==
    [hidden_size : 2..MaxHidden,
     num_attention_heads : 1..MaxHeads,
     multi_query : BOOLEAN,
     world_size : 1..MaxWorld]

\* The flat-string modes the two forward methods test for.
Disabled == ""
Batched == "bmm"
Clustered == "flora"

\* The mode arguments a caller passes to set_mode: the two modes the code
\* knows and one it does not.
ModeArgs == {Batched, Clustered, "lora"}

Ranks == 1..MaxRank

\* A module that holds no adapter matrix: no attribute A..F exists.
NoParams == [n \in {} |-> <<>>]

\* self.rank before the first set_mode: the attribute does not exist.
NoRank == 0

\* Attribute assignment: the names of new are (re)bound, the others kept.
Assign(old, new) ==
    [n \in (DOMAIN old) \cup (DOMAIN new) |->
        IF n \in DOMAIN new THEN new[n] ELSE old[n]]

\* divide() of the parallel linear layers: the partitioned size must split
\* evenly over the world.
Divides(d, n) == n % d = 0

\* --------------------------------------------------- GPTBigCodeAttention
\* __init__: the module record, or the failure of the constructor.
GPTBigCodeAttention(c) ==
    LET total_num_heads == c.num_attention_heads
        world == c.world_size
        num_heads == total_num_heads \div world
        head_dim == c.hidden_size \div total_num_heads
        num_kv_heads == IF c.multi_query THEN 1 ELSE num_heads
        kv_dim == IF c.multi_query THEN head_dim ELSE num_kv_heads * head_dim
        qkv_out == IF c.multi_query THEN c.hidden_size
                   ELSE c.hidden_size + 2 * kv_dim
    IN  IF total_num_heads % world # 0
        THEN [status |-> "AssertionError"]
        ELSE IF ~Divides(world, qkv_out) \/ ~Divides(world, c.hidden_size)
        THEN [status |-> "AssertionError"]
        ELSE [status |-> "ok",
              hidden_size |-> c.hidden_size,
              tensor_model_parallel_world_size |-> world,
              num_heads |-> num_heads,
              head_dim |-> head_dim,
              multi_query |-> c.multi_query,
              num_kv_heads |-> num_kv_heads,
              kv_dim |-> kv_dim,
              mode |-> Disabled,
              rank |-> NoRank,
              params |-> NoParams]

\* The matrices set_mode creates, by name, as shapes.
attn_bmm_params(m, rank) ==
    [n \in {"A", "B", "C", "D", "E", "F"} |->
        CASE n = "A" -> <<m.hidden_size, rank>>
          [] n = "B" -> <<rank, m.hidden_size>>
          [] n = "C" -> <<m.hidden_size, rank>>
          [] n = "D" -> <<rank, 2 * m.kv_dim>>
          [] n = "E" -> <<m.hidden_size, rank>>
          [] n = "F" -> <<rank, m.hidden_size>>]

num_clusters == 10

attn_flora_params(m, rank) ==
    [n \in {"A", "B", "C", "D", "E", "F"} |->
        CASE n = "A" -> <<rank, num_clusters, m.hidden_size>>
          [] n = "B" -> <<rank, num_clusters, m.hidden_size>>
          [] n = "C" -> <<rank, num_clusters, m.hidden_size>>
          [] n = "D" -> <<rank, num_clusters, 2 * m.kv_dim>>
          [] n = "E" -> <<rank, num_clusters, m.hidden_size>>
          [] n = "F" -> <<rank, num_clusters, m.hidden_size>>]

\* attn_set_mode creating matrices only while the module has none.
attn_set_mode_create_once(m, mode, rank) ==
    [m EXCEPT !.mode = mode,
              !.rank = rank,
              !.params = IF DOMAIN @ # {} THEN @
                         ELSE IF mode = Batched
                         THEN attn_bmm_params(m, rank)
                         ELSE IF mode = Clustered
                         THEN attn_flora_params(m, rank)
                         ELSE @]

attn_set_mode(m, mode, rank) ==
    [m EXCEPT !.mode = mode,
              !.rank = rank,
              !.params = IF mode = Batched
                         THEN Assign(@, attn_bmm_params(m, rank))
                         ELSE IF mode = Clustered
                         THEN Assign(@, attn_flora_params(m, rank))
                         ELSE @]

attn_unset_mode(m) == [m EXCEPT !.mode = Disabled]

\* ------------------------------------------------------------- GPTBigMLP
GPTBigMLP(intermediate_size, c) ==
    IF ~Divides(c.world_size, intermediate_size)
    THEN [status |-> "AssertionError"]
    ELSE [status |-> "ok",
          hidden_size |-> c.hidden_size,
          intermediate_size |-> intermediate_size,
          world_size |-> c.world_size,
          mode |-> Disabled,
          rank |-> NoRank,
          params |-> NoParams]

mlp_bmm_params(m, rank) ==
    [n \in {"A", "B", "C", "D"} |->
        CASE n = "A" -> <<m.hidden_size, rank>>
          [] n = "B" -> <<rank, m.intermediate_size>>
          [] n = "C" -> <<m.intermediate_size, rank>>
          [] n = "D" -> <<rank, m.hidden_size>>]

mlp_flora_params(m, rank) ==
    [n \in {"A", "B", "C", "D"} |->
        CASE n = "A" -> <<rank, num_clusters, m.hidden_size>>
          [] n = "B" -> <<rank, num_clusters, m.intermediate_size>>
          [] n = "C" -> <<rank, num_clusters, m.intermediate_size>>
          [] n = "D" -> <<rank, num_clusters, m.hidden_size>>]

mlp_set_mode(m, mode, rank) ==
    [m EXCEPT !.mode = mode,
              !.rank = rank,
              !.params = IF mode = Batched
                         THEN Assign(@, mlp_bmm_params(m, rank))
                         ELSE IF mode = Clustered
                         THEN Assign(@, mlp_flora_params(m, rank))
                         ELSE @]

mlp_unset_mode(m) == [m EXCEPT !.mode = Disabled]

\* ---------------------------------------------------------------- tensors
T(dim, val) == [dim |-> dim, val |-> val]

NoTensor == T(0, <<>>)

\* A collaborator that maps every row on its own (a linear layer, a norm,
\* an activation) is a fixed map of row values; the maps differ from one
\* collaborator to the next so that their results can be told apart.
Rowwise(a, c, x, dim) ==
    T(dim, [k \in 1..Len(x.val) |-> (a * x.val[k] + c) % 97])

\* x.unsqueeze(0).expand([rank, -1, -1]) and the [0] that undoes it.
Expand(x, rank) == [r \in 1..rank |-> x]

First(x3) == x3[1]

\* Elementwise product of trailing widths w1 and w2 broadcasts.
Broadcastable(w1, w2) == w1 = w2 \/ w1 = 1 \/ w2 = 1

\* torch.bmm(x, M.expand(batch, -1, -1)) for a 2-D matrix of shape M.
BmmOk(width, M) == Len(M) = 2 /\ width = M[1]

\* torch.gather(M, 1, indices.expand(rank, -1, width)) on a 3-D matrix of
\* shape M: the index must fit M outside dim 1 and select existing clusters.
GatherOk(M, rank, indices, width) ==
    /\ Len(M) = 3
    /\ rank <= M[1]
    /\ width <= M[3]
    /\ \A k \in 1..Len(indices) : indices[k] >= 0 /\ indices[k] < M[2]

\* ------------------------------------------------------- forward contexts
\* The local variables of a forward call in flight.
Ctx(x, cache) ==
    [status |-> "ok",
     trace |-> <<>>,            \* the collaborators and adapter steps run
     hidden_states |-> x,
     q |-> NoTensor, k |-> NoTensor, v |-> NoTensor, kv |-> NoTensor,
     attn_output |-> NoTensor,
     adapters |-> <<>>,         \* widths of the adapter results computed
     kv_cache |-> cache]

Then(c, f(_)) == IF c.status = "ok" THEN f(c) ELSE c

Did(c, step) == [c EXCEPT !.trace = Append(@, step)]

Raise(c, err) == [c EXCEPT !.status = err]

Adapter(c, width) == [c EXCEPT !.adapters = Append(@, width)]

\* ----------------------------------------------------------- collaborators
\* ColumnParallelLinear(in, out, gather_output=False): the partition keeps
\* out / world_size columns.
c_attn_q(m, x) ==
    Rowwise(3, 1, x, m.hidden_size \div m.tensor_model_parallel_world_size)

\* nn.Linear(hidden_size, 2 * kv_dim)
c_attn_kv(m, x) == Rowwise(5, 2, x, 2 * m.kv_dim)

c_attn(m, x) ==
    Rowwise(13, 5, x, (m.hidden_size + 2 * m.kv_dim)
                          \div m.tensor_model_parallel_world_size)

\* RowParallelLinear(hidden_size, hidden_size, input_is_parallel=True)
attn_c_proj_in(m) == m.hidden_size \div m.tensor_model_parallel_world_size

attn_c_proj(m, x) == Rowwise(29, 6, x, m.hidden_size)

\* PagedAttention: views q as [tokens, num_heads, head_dim] and k, v as
\* [tokens, num_kv_heads, head_dim], writes k and v into the cache and
\* returns [tokens, num_heads * head_dim].
PagedAttentionOk(m, q, k, v) ==
    /\ q.dim = m.num_heads * m.head_dim
    /\ k.dim = m.num_kv_heads * m.head_dim
    /\ v.dim = m.num_kv_heads * m.head_dim

PagedAttention(m, q, k, v, cache) ==
    T(m.num_heads * m.head_dim,
      [i \in 1..Len(q.val) |->
          (q.val[i] + 17 * k.val[i] + 19 * v.val[i] + 23 * cache) % 97])

\* -------------------------------------------- GPTBigCodeAttention.forward
\* lines 102-140: pack hidden_states, then the A, B, C, D chain.
attn_bmm_pre(m, b, c) ==
    LET p == pack(b, c.hidden_states.val) IN
    IF p.status # "ok" THEN Raise(c, p.status)
    ELSE LET c1 == Did(c, "pack") IN
         IF ~BmmOk(c.hidden_states.dim, m.params["A"])
            \/ ~BmmOk(m.params["A"][2], m.params["B"])
         THEN Raise(c1, "RuntimeError")
         ELSE LET c2 == Adapter(Did(c1, "bmm_AB"), m.params["B"][2]) IN
              IF ~BmmOk(m.params["B"][2], m.params["C"])
                 \/ ~BmmOk(m.params["C"][2], m.params["D"])
              THEN Raise(c2, "RuntimeError")
              ELSE Adapter(Did(c2, "bmm_CD"), m.params["D"][2])

\* lines 144-167: the clustered adapter around c_attn_q and c_attn_kv.
attn_flora_qkv(m, indices, c) ==
    LET x == c.hidden_states
        rank == m.rank
        w == x.dim
    IN  IF ~GatherOk(m.params["A"], rank, indices, w)
           \/ ~GatherOk(m.params["C"], rank, indices, w)
        THEN Raise(c, "RuntimeError")
        ELSE LET c1 == Adapter(Adapter(Did(c, "plora_AC"), w), w)
                 x3 == Expand(x, rank)
                 q == First([r \in 1..rank |-> c_attn_q(m, x3[r])])
                 kv == First([r \in 1..rank |-> c_attn_kv(m, x3[r])])
                 c2 == [Did(Did(c1, "c_attn_q"), "c_attn_kv") EXCEPT
                           !.q = q, !.kv = kv]
             IN  IF kv.dim # 2 * m.kv_dim THEN Raise(c2, "RuntimeError")
                 ELSE LET c3 == [c2 EXCEPT
                                   !.k = Rowwise(7, 3, kv, m.kv_dim),
                                   !.v = Rowwise(11, 4, kv, m.kv_dim)]
                      IN  IF ~GatherOk(m.params["D"], rank, indices,
                                       m.params["D"][3])
                             \/ ~GatherOk(m.params["B"], rank, indices, w)
                             \/ ~Broadcastable(w, q.dim)
                             \/ ~Broadcastable(m.params["D"][3], kv.dim)
                          THEN Raise(c3, "RuntimeError")
                          ELSE [Adapter(Adapter(Did(c3, "plora_BD"), q.dim),
                                        kv.dim)
                                  EXCEPT !.hidden_states = First(x3)]

\* lines 169-171
attn_mq_qkv(m, c) ==
    LET q == c_attn_q(m, c.hidden_states)
        kv == c_attn_kv(m, c.hidden_states)
        c1 == [Did(Did(c, "c_attn_q"), "c_attn_kv") EXCEPT !.q = q, !.kv = kv]
    IN  IF kv.dim # 2 * m.kv_dim THEN Raise(c1, "RuntimeError")
        ELSE [c1 EXCEPT !.k = Rowwise(7, 3, kv, m.kv_dim),
                        !.v = Rowwise(11, 4, kv, m.kv_dim)]

\* lines 176-181: the fused projection and its split into q, k, v.
attn_mha_qkv(m, c) ==
    LET qkv == c_attn(m, c.hidden_states)
        qdim == m.hidden_size \div m.tensor_model_parallel_world_size
        c1 == Did(c, "c_attn")
    IN  IF qkv.dim # qdim + m.kv_dim + m.kv_dim THEN Raise(c1, "RuntimeError")
        ELSE [c1 EXCEPT !.q = Rowwise(2, 1, qkv, qdim),
                        !.k = Rowwise(7, 3, qkv, m.kv_dim),
                        !.v = Rowwise(11, 4, qkv, m.kv_dim)]

\* attn_qkv without the refusal of clustered mode outside multi-query.
attn_qkv_no_refusal(m, indices, c) ==
    IF m.multi_query
    THEN IF m.mode = Clustered THEN attn_flora_qkv(m, indices, c)
         ELSE attn_mq_qkv(m, c)
    ELSE attn_mha_qkv(m, c)

\* lines 142-181
attn_qkv(m, indices, c) ==
    IF m.multi_query
    THEN IF m.mode = Clustered THEN attn_flora_qkv(m, indices, c)
         ELSE attn_mq_qkv(m, c)
    ELSE IF m.mode = Clustered THEN Raise(c, "NotImplementedError")
         ELSE attn_mha_qkv(m, c)

\* lines 182-184
attn_kernel(m, c) ==
    IF ~PagedAttentionOk(m, c.q, c.k, c.v) THEN Raise(c, "RuntimeError")
    ELSE [Did(c, "attn") EXCEPT
             !.attn_output = PagedAttention(m, c.q, c.k, c.v, c.kv_cache),
             !.kv_cache = @ + 1]

\* lines 187-195: the clustered adapter around c_proj.
attn_flora_post(m, indices, c) ==
    LET rank == m.rank
        w == c.attn_output.dim
    IN  IF ~GatherOk(m.params["E"], rank, indices, w)
           \/ ~GatherOk(m.params["F"], rank, indices, w)
        THEN Raise(c, "RuntimeError")
        ELSE LET c1 == Adapter(Did(c, "plora_E"), w)
                 a3 == Expand(c.attn_output, rank)
             IN  IF w # attn_c_proj_in(m) THEN Raise(c1, "RuntimeError")
                 ELSE LET o3 == [r \in 1..rank |-> attn_c_proj(m, a3[r])]
                          c2 == Did(c1, "c_proj")
                      IN  IF ~Broadcastable(w, o3[1].dim)
                          THEN Raise(c2, "RuntimeError")
                          ELSE [Adapter(Did(c2, "plora_F"), o3[1].dim)
                                  EXCEPT !.attn_output = First(o3)]

\* lines 197-209: pack attn_output, then the E, F chain.
attn_bmm_post(m, b, c) ==
    LET p == pack(b, c.attn_output.val) IN
    IF p.status # "ok" THEN Raise(c, p.status)
    ELSE LET c1 == Did(c, "pack") IN
         IF ~BmmOk(c.attn_output.dim, m.params["E"])
            \/ ~BmmOk(m.params["E"][2], m.params["F"])
         THEN Raise(c1, "RuntimeError")
         ELSE Adapter(Did(c1, "bmm_EF"), m.params["F"][2])

\* line 211
attn_plain_c_proj(m, c) ==
    IF c.attn_output.dim # attn_c_proj_in(m) THEN Raise(c, "RuntimeError")
    ELSE [Did(c, "c_proj") EXCEPT !.attn_output = attn_c_proj(m, @)]

\* attn_post with the output projection ahead of the E, F chain.
attn_post_proj_first(m, b, indices, c) ==
    IF m.mode = Clustered THEN attn_flora_post(m, indices, c)
    ELSE Then(attn_plain_c_proj(m, c),
              LAMBDA d : IF m.mode = Batched THEN attn_bmm_post(m, b, d)
                         ELSE d)

\* lines 186-211
attn_post(m, b, indices, c) ==
    IF m.mode = Clustered THEN attn_flora_post(m, indices, c)
    ELSE Then(IF m.mode = Batched THEN attn_bmm_post(m, b, c) ELSE c,
              LAMBDA d : attn_plain_c_proj(m, d))

\* The whole call: the context it ends in. The value returned is
\* attn_output when status is "ok".
attn_forward(m, x, cache, b, indices) ==
    Then(Then(Then(IF m.mode = Batched
                   THEN attn_bmm_pre(m, b, Ctx(x, cache))
                   ELSE Ctx(x, cache),
                   LAMBDA d : attn_qkv(m, indices, d)),
              LAMBDA d : attn_kernel(m, d)),
         LAMBDA d : attn_post(m, b, indices, d))

\* ------------------------------------------------------ GPTBigMLP.forward
\* ColumnParallelLinear(hidden_size, intermediate_size, gather_output=False)
c_fc(m, x) == Rowwise(31, 7, x, m.intermediate_size \div m.world_size)

act(x) == T(x.dim, [k \in 1..Len(x.val) |-> (x.val[k] * x.val[k] + 1) % 97])

\* RowParallelLinear(intermediate_size, hidden_size, input_is_parallel=True)
mlp_c_proj_in(m) == m.intermediate_size \div m.world_size

mlp_c_proj(m, x) == Rowwise(37, 8, x, m.hidden_size)

\* lines 272-308: pack hidden_states, then the A, B chain.
mlp_bmm_pre(m, b, c) ==
    LET p == pack(b, c.hidden_states.val) IN
    IF p.status # "ok" THEN Raise(c, p.status)
    ELSE LET c1 == Did(c, "pack") IN
         IF ~BmmOk(c.hidden_states.dim, m.params["A"])
            \/ ~BmmOk(m.params["A"][2], m.params["B"])
         THEN Raise(c1, "RuntimeError")
         ELSE Adapter(Did(c1, "bmm_AB"), m.params["B"][2])

\* lines 310-341: the clustered adapter around c_fc and c_proj.
mlp_flora(m, indices, c) ==
    LET rank == m.rank
        x == c.hidden_states
    IN  IF ~GatherOk(m.params["A"], rank, indices, m.params["A"][3])
           \/ ~Broadcastable(m.params["A"][3], x.dim)
        THEN Raise(c, "RuntimeError")
        ELSE
        LET c1 == Adapter(Did(c, "plora_A"), x.dim)
            h1 == First([r \in 1..rank |-> c_fc(m, Expand(x, rank)[r])])
            c2 == [Did(c1, "c_fc") EXCEPT !.hidden_states = h1]
        IN  IF ~GatherOk(m.params["B"], rank, indices, m.params["B"][3])
               \/ ~Broadcastable(m.params["B"][3], h1.dim)
            THEN Raise(c2, "RuntimeError")
            ELSE
            LET h2 == act(h1)
                c3 == [Did(Adapter(Did(c2, "plora_B"), h1.dim), "act")
                         EXCEPT !.hidden_states = h2]
            IN  IF ~GatherOk(m.params["C"], rank, indices, m.params["C"][3])
                   \/ ~Broadcastable(m.params["C"][3], h2.dim)
                THEN Raise(c3, "RuntimeError")
                ELSE
                LET c4 == Adapter(Did(c3, "plora_C"), h2.dim) IN
                IF h2.dim # mlp_c_proj_in(m) THEN Raise(c4, "RuntimeError")
                ELSE
                LET h3 == First([r \in 1..rank |->
                                    mlp_c_proj(m, Expand(h2, rank)[r])])
                    c5 == [Did(c4, "c_proj") EXCEPT !.hidden_states = h3]
                IN  IF ~GatherOk(m.params["D"], rank, indices,
                                 m.params["D"][3])
                       \/ ~Broadcastable(m.params["D"][3], h3.dim)
                    THEN Raise(c5, "RuntimeError")
                    ELSE Adapter(Did(c5, "plora_D"), h3.dim)

\* lines 343-344
mlp_fc_act(m, c) ==
    [Did(Did(c, "c_fc"), "act") EXCEPT
        !.hidden_states = act(c_fc(m, c.hidden_states))]

\* lines 346-358: pack the activations, then the C, D chain.
mlp_bmm_post(m, b, c) ==
    LET p == pack(b, c.hidden_states.val) IN
    IF p.status # "ok" THEN Raise(c, p.status)
    ELSE LET c1 == Did(c, "pack") IN
         IF ~BmmOk(c.hidden_states.dim, m.params["C"])
            \/ ~BmmOk(m.params["C"][2], m.params["D"])
         THEN Raise(c1, "RuntimeError")
         ELSE Adapter(Did(c1, "bmm_CD"), m.params["D"][2])

\* line 360
mlp_plain_c_proj(m, c) ==
    IF c.hidden_states.dim # mlp_c_proj_in(m) THEN Raise(c, "RuntimeError")
    ELSE [Did(c, "c_proj") EXCEPT !.hidden_states = mlp_c_proj(m, @)]

\* The whole call: the context it ends in. The value returned is
\* hidden_states when status is "ok".
mlp_forward(m, x, b, indices) ==
    IF m.mode = Clustered
    THEN mlp_flora(m, indices, Ctx(x, 0))
    ELSE Then(Then(Then(IF m.mode = Batched
                        THEN mlp_bmm_pre(m, b, Ctx(x, 0))
                        ELSE Ctx(x, 0),
                        LAMBDA d : mlp_fc_act(m, d)),
                   LAMBDA d : IF m.mode = Batched
                              THEN mlp_bmm_post(m, b, d)
                              ELSE d),
              LAMBDA d : mlp_plain_c_proj(m, d))

\* ------------------------------------------------------- GPTBigCodeBlock
inner_dim(c) == 4 * c.hidden_size

NotBuilt == [status |-> "none"]

ln_1(x) == Rowwise(41, 9, x, x.dim)

ln_2(x) == Rowwise(43, 10, x, x.dim)

\* The residual connection a + b.
Add(a, b) == T(a.dim, [k \in 1..Len(a.val) |-> (a.val[k] + b.val[k]) % 97])

\* lines 418-424: the block's result once self.mlp has ended in context f,
\* after self.attn ended in context a and the first residual add gave h.
block_after_mlp(a, h, f) ==
    [status |-> f.status,
     trace |-> a.trace \o f.trace,
     out |-> IF f.status = "ok" THEN Add(h, f.hidden_states) ELSE NoTensor,
     adapters |-> a.adapters \o f.adapters,
     kv_cache |-> a.kv_cache]

\* lines 416-424: the block once self.attn has ended in context a.
block_after_attn(mm, x, b, indices, a) ==
    IF a.status # "ok"
    THEN [status |-> a.status, trace |-> a.trace, out |-> NoTensor,
          adapters |-> a.adapters, kv_cache |-> a.kv_cache]
    ELSE block_after_mlp(a, Add(a.attn_output, x),
                         mlp_forward(mm, ln_2(Add(a.attn_output, x)), b,
                                     indices))

\* GPTBigCodeBlock.forward: what it returns, or the error that aborts it.
block_forward(ma, mm, x, cache, b, indices) ==
    block_after_attn(mm, x, b, indices,
                     attn_forward(ma, ln_1(x), cache, b, indices))

\* GPTBigCodeForCausalLMPeft.forward draws one cluster index per token.
IndexVectors(n) == {[k \in 1..n |-> c] : c \in {0, num_clusters - 1}}

\* The rows handed to a forward call of the block or of a sub-module.
input_tensor(c, b) == T(c.hidden_size, hidden_states(b))

\* ---------------------------------------- GPTBigCodeForCausalLM.load_weights
\* A parameter name is the sequence of its dot-separated components; a
\* weight is the sequence of its rows along dim 0, each row known by its
\* 1-based position in the checkpoint tensor.
Rows(n) == [j \in 1..n |-> j]

\* s[a:b] of a Python sequence, 0 <= a.
Slice(s, a, b) ==
    LET e == IF b < Len(s) THEN b ELSE Len(s) IN
    IF a >= e THEN <<>> ELSE SubSeq(s, a + 1, e)

\* "lm_head.weight" in name
is_lm_head(name) ==
    \E i \in 1..(Len(name) - 1) : name[i] = "lm_head" /\ name[i + 1] = "weight"

\* is_attn_bias taking every bias under the attention module.
is_attn_bias_any(name) ==
    \E i \in 2..(Len(name) - 1) : name[i] = "attn" /\ name[Len(name)] = "bias"

\* ".attn.bias" in name
is_attn_bias(name) ==
    \E i \in 2..(Len(name) - 1) : name[i] = "attn" /\ name[i + 1] = "bias"

\* lines 523-524
normalise(name) ==
    IF Len(name) > 1 /\ name[1] = "transformer" THEN name
    ELSE <<"transformer">> \o name

\* "c_attn" in name
has_c_attn(name) ==
    \E i \in 1..Len(name) : name[i] \in {"c_attn", "c_attn_q", "c_attn_kv"}

\* name.replace("c_attn", to)
replace_c_attn(name, to) ==
    [i \in 1..Len(name) |-> IF name[i] = "c_attn" THEN to ELSE name[i]]

\* self.state_dict(): the parameters of a model with one decoder layer.
state_dict(c) ==
    LET layer == <<"transformer", "h", "0">>
        both(prefix) == {prefix \o <<"weight">>, prefix \o <<"bias">>}
    IN  {<<"transformer", "wte", "weight">>, <<"transformer", "wpe", "weight">>}
        \cup both(<<"transformer", "ln_f">>)
        \cup both(layer \o <<"ln_1">>)
        \cup both(layer \o <<"ln_2">>)
        \cup (IF c.multi_query
              THEN both(layer \o <<"attn", "c_attn_q">>)
                   \cup both(layer \o <<"attn", "c_attn_kv">>)
              ELSE both(layer \o <<"attn", "c_attn">>))
        \cup both(layer \o <<"attn", "c_proj">>)
        \cup both(layer \o <<"mlp", "c_fc">>)
        \cup both(layer \o <<"mlp", "c_proj">>)

\* lines 532-540
head_size(c) == c.hidden_size \div c.num_attention_heads

total_kv_size(c) ==
    head_size(c) * (IF c.multi_query THEN 1 ELSE c.num_attention_heads)

head_start(c, rank) == rank * (c.num_attention_heads \div c.world_size)

head_end(c, rank) == (rank + 1) * (c.num_attention_heads \div c.world_size)

\* torch.split(loaded_weight, [hidden_size, total_kv_size, total_kv_size])
split_ok(c, w) == Len(w) = c.hidden_size + 2 * total_kv_size(c)

wq_block(c, w) == Slice(w, 0, c.hidden_size)

wk_block(c, w) == Slice(w, c.hidden_size, c.hidden_size + total_kv_size(c))

wv_block(c, w) ==
    Slice(w, c.hidden_size + total_kv_size(c),
          c.hidden_size + 2 * total_kv_size(c))

\* wq[head_size * head_start : head_size * head_end], and the same for wk, wv
head_range(c, rank, block) ==
    Slice(block, head_size(c) * head_start(c, rank),
          head_size(c) * head_end(c, rank))

\* lines 547-557: the tensors the partition loads for a fused QKV tensor.
shard_q(c, rank, w) == head_range(c, rank, wq_block(c, w))

\* shard_fused with the key block left whole.
shard_fused_key_unsliced(c, rank, w) ==
    shard_q(c, rank, w) \o wk_block(c, w)
        \o head_range(c, rank, wv_block(c, w))

shard_fused(c, rank, w) ==
    shard_q(c, rank, w) \o head_range(c, rank, wk_block(c, w))
        \o head_range(c, rank, wv_block(c, w))

shard_kv(c, w) == wk_block(c, w) \o wv_block(c, w)

LoadCall(fn, name, w) == [fn |-> fn, name |-> name, weight |-> w]

\* One pass of the loop of lines 512-584 on partition `rank`: the pair is
\* skipped, or handed to the loading routines, or the lookup fails.
load_pair(c, rank, raw_name, w) ==
    IF is_lm_head(raw_name) \/ is_attn_bias(raw_name)
    THEN [status |-> "ok", skipped |-> TRUE, calls |-> <<>>]
    ELSE
    LET name == normalise(raw_name)
        fused == has_c_attn(name)
    IN  IF fused /\ ~split_ok(c, w)
        THEN [status |-> "RuntimeError", skipped |-> FALSE, calls |-> <<>>]
        ELSE IF fused /\ c.multi_query
        THEN LET qn == replace_c_attn(name, "c_attn_q")
                 kvn == replace_c_attn(name, "c_attn_kv")
             IN  IF qn \notin state_dict(c)
                 THEN [status |-> "KeyError", skipped |-> FALSE,
                       calls |-> <<>>]
                 ELSE IF kvn \notin state_dict(c)
                 THEN [status |-> "KeyError", skipped |-> FALSE,
                       calls |-> <<LoadCall("load_tensor_parallel_weights",
                                            qn, shard_q(c, rank, w))>>]
                 ELSE [status |-> "ok", skipped |-> FALSE,
                       calls |-> <<LoadCall("load_tensor_parallel_weights",
                                            qn, shard_q(c, rank, w)),
                                   LoadCall("load_tensor_parallel_weights",
                                            kvn, shard_kv(c, w))>>]
        ELSE LET lw == IF fused THEN shard_fused(c, rank, w) ELSE w IN
             IF name \notin state_dict(c)
             THEN [status |-> "KeyError", skipped |-> FALSE, calls |-> <<>>]
             ELSE IF name = <<"transformer", "wte", "weight">>
             THEN [status |-> "ok", skipped |-> FALSE,
                   calls |-> <<LoadCall("load_padded_tensor_parallel_vocab",
                                        name, lw)>>]
             ELSE [status |-> "ok", skipped |-> FALSE,
                   calls |-> <<LoadCall("load_tensor_parallel_weights",
                                        name, lw)>>]

\* hf_model_weights_iterator: the (name, tensor) pairs of a checkpoint of
\* the configuration, fused QKV first.
qkv_weight_name == <<"transformer", "h", "0", "attn", "c_attn", "weight">>

qkv_bias_name == <<"h", "0", "attn", "c_attn", "bias">>

Stream(c) ==
    <<[name |-> qkv_weight_name,
       weight |-> Rows(c.hidden_size + 2 * total_kv_size(c))],
      [name |-> qkv_bias_name,
       weight |-> Rows(c.hidden_size + 2 * total_kv_size(c))],
      [name |-> <<"lm_head", "weight">>, weight |-> Rows(2)],
      [name |-> <<"transformer", "h", "0", "attn", "bias">>,
       weight |-> Rows(1)],
      [name |-> <<"transformer", "wte", "weight">>, weight |-> Rows(2)],
      [name |-> <<"transformer", "h", "0", "mlp", "c_fc", "weight">>,
       weight |-> Rows(inner_dim(c))],
      [name |-> <<"transformer", "h", "0", "attn", "masked_bias">>,
       weight |-> Rows(1)]>>

\* A partition that has not started load_weights.
NotLoading == [pos |-> 0, status |-> "ok", skipped |-> {}, calls |-> <<>>]

\* ------------------------------------------------------------------ state
VARIABLES
    config,     \* the GPTBigCodeConfig and world size of the process
    attn,       \* the block's GPTBigCodeAttention
    mlp,        \* the block's GPTBigMLP
    kv_cache,   \* the layer's KV cache: the kernel invocations that wrote it
    batch,      \* hidden_states and InputMetadata of the call at hand
    call,       \* the forward call at hand: what it ran and how it ended
    packed,     \* result of the pack step
    unpacked,   \* result of the unpack step
    loader      \* per partition rank: the progress of its load_weights

vars == <<loader, config, attn, mlp, kv_cache, batch, call, packed, unpacked>>

NoResult == [status |-> "none"]

\* A batch that stands for "no call at hand".
NoBatch == [rows |-> 0, prompt_lens |-> <<>>, num_valid_tokens |-> 0]

NoCall == [op |-> "none"]

\* ------------------------------------------------------- SpecRepack
\* The repacking of lines 102-131 / 272-303 on every batch of the bounds.
InitRepack ==
    /\ batch \in Batches(MaxRows, MaxPrompts)
    /\ packed = NoResult
    /\ unpacked = NoResult
    /\ config = [hidden_size |-> 2, num_attention_heads |-> 1,
                 multi_query |-> TRUE, world_size |-> 1]
    /\ attn = attn_set_mode(GPTBigCodeAttention(config), Batched, 1)
    /\ mlp = mlp_set_mode(GPTBigMLP(inner_dim(config), config), Batched, 1)
    /\ kv_cache = 0
    /\ call = NoCall
    /\ loader = <<>>

Pack ==
    /\ attn.mode = Batched
    /\ packed = NoResult
    /\ packed' = pack(batch, hidden_states(batch))
    /\ UNCHANGED <<loader, config, attn, mlp, kv_cache, batch, call, unpacked>>

Unpack ==
    /\ packed.status = "ok"
    /\ unpacked = NoResult
    /\ unpacked' = [status |-> "ok", flat |-> unpack(batch, packed.inputs)]
    /\ UNCHANGED <<loader, config, attn, mlp, kv_cache, batch, call, packed>>

NextRepack == Pack \/ Unpack

SpecRepack == InitRepack /\ [][NextRepack]_vars

\* ------------------------------------------------------------- Spec
\* The life of one decoder block: construction and the mode operations of
\* its two sub-modules.
Init ==
    /\ config \in Configs
    /\ attn = NotBuilt
    /\ mlp = NotBuilt
    /\ kv_cache = 0
    /\ batch = NoBatch
    /\ call = NoCall
    /\ packed = NoResult
    /\ unpacked = NoResult
    /\ loader = <<>>

\* GPTBigCodeBlock.__init__: the attention, then the feed-forward module; a
\* failing constructor leaves no block.
Construct ==
    /\ attn = NotBuilt
    /\ attn' = GPTBigCodeAttention(config)
    /\ mlp' = IF attn'.status = "ok"
              THEN GPTBigMLP(inner_dim(config), config)
              ELSE NotBuilt
    /\ UNCHANGED <<loader, config, kv_cache, batch, call, packed, unpacked>>

AttnSetMode ==
    /\ attn.status = "ok"
    /\ \E mode \in ModeArgs, rank \in Ranks :
          attn' = attn_set_mode(attn, mode, rank)
    /\ UNCHANGED <<loader, config, mlp, kv_cache, batch, call, packed, unpacked>>

AttnUnsetMode ==
    /\ attn.status = "ok"
    /\ attn' = attn_unset_mode(attn)
    /\ UNCHANGED <<loader, config, mlp, kv_cache, batch, call, packed, unpacked>>

MlpSetMode ==
    /\ mlp.status = "ok"
    /\ \E mode \in ModeArgs, rank \in Ranks :
          mlp' = mlp_set_mode(mlp, mode, rank)
    /\ UNCHANGED <<loader, config, attn, kv_cache, batch, call, packed, unpacked>>

MlpUnsetMode ==
    /\ mlp.status = "ok"
    /\ mlp' = mlp_unset_mode(mlp)
    /\ UNCHANGED <<loader, config, attn, kv_cache, batch, call, packed, unpacked>>

Next ==
    \/ Construct
    \/ AttnSetMode
    \/ AttnUnsetMode
    \/ MlpSetMode
    \/ MlpUnsetMode

Spec == Init /\ [][Next]_vars

\* ------------------------------------------------------ SpecForward
\* Forward calls on a block whose sub-modules are put into a mode the way
\* GPTBigCodeForCausalLMPeft.__init__ does it: both with one mode and rank.
FwdBatches == Batches(MaxFwdRows, 1)

\* lines 594-596, for the layer at hand, while no forward call is in flight.
PeftSetModes ==
    /\ attn.status = "ok"
    /\ mlp.status = "ok"
    /\ call = NoCall
    /\ \E mode \in ModeArgs, rank \in Ranks :
          /\ attn' = attn_set_mode(attn, mode, rank)
          /\ mlp' = mlp_set_mode(mlp, mode, rank)
    /\ UNCHANGED <<loader, config, kv_cache, batch, call, packed, unpacked>>

AttnForward ==
    /\ attn.status = "ok"
    /\ call = NoCall
    /\ kv_cache < MaxKernelCalls
    /\ \E b \in FwdBatches : \E indices \in IndexVectors(b.rows) :
          \E r \in {attn_forward(attn, input_tensor(config, b), kv_cache,
                                 b, indices)} :
              /\ batch' = b
              /\ call' = [op |-> "attn", status |-> r.status,
                          out |-> IF r.status = "ok" THEN r.attn_output
                                  ELSE NoTensor,
                          trace |-> r.trace, adapters |-> r.adapters,
                          kv_before |-> kv_cache, indices |-> indices]
              /\ kv_cache' = r.kv_cache
    /\ UNCHANGED <<loader, config, attn, mlp, packed, unpacked>>

MlpForward ==
    /\ mlp.status = "ok"
    /\ call = NoCall
    /\ \E b \in FwdBatches : \E indices \in IndexVectors(b.rows) :
          \E r \in {mlp_forward(mlp, input_tensor(config, b), b, indices)} :
              /\ batch' = b
              /\ call' = [op |-> "mlp", status |-> r.status,
                          out |-> IF r.status = "ok" THEN r.hidden_states
                                  ELSE NoTensor,
                          trace |-> r.trace, adapters |-> r.adapters,
                          kv_before |-> kv_cache, indices |-> indices]
    /\ UNCHANGED <<loader, config, attn, mlp, kv_cache, packed, unpacked>>

BlockForward ==
    /\ attn.status = "ok"
    /\ mlp.status = "ok"
    /\ call = NoCall
    /\ kv_cache < MaxKernelCalls
    /\ \E b \in FwdBatches : \E indices \in IndexVectors(b.rows) :
          \E r \in {block_forward(attn, mlp, input_tensor(config, b),
                                  kv_cache, b, indices)} :
              /\ batch' = b
              /\ call' = [op |-> "block", status |-> r.status,
                          out |-> r.out,
                          trace |-> r.trace, adapters |-> r.adapters,
                          kv_before |-> kv_cache, indices |-> indices]
              /\ kv_cache' = r.kv_cache
    /\ UNCHANGED <<loader, config, attn, mlp, packed, unpacked>>

\* The call at hand has returned or raised; its caller moves on.
Return ==
    /\ call # NoCall
    /\ call' = NoCall
    /\ batch' = NoBatch
    /\ UNCHANGED <<loader, config, attn, mlp, kv_cache, packed, unpacked>>

NextForward ==
    \/ Construct
    \/ PeftSetModes
    \/ AttnForward
    \/ MlpForward
    \/ BlockForward
    \/ Return

SpecForward == Init /\ [][NextForward]_vars

\* --------------------------------------------------------- SpecLoad
\* load_weights on every partition of a constructed model: each partition
\* walks the weight stream on its own.
Partitions == 0..(config.world_size - 1)

InitLoad ==
    /\ config \in {c \in Configs :
                     /\ GPTBigCodeAttention(c).status = "ok"
                     /\ GPTBigMLP(inner_dim(c), c).status = "ok"}
    /\ attn = GPTBigCodeAttention(config)
    /\ mlp = GPTBigMLP(inner_dim(config), config)
    /\ kv_cache = 0
    /\ batch = NoBatch
    /\ call = NoCall
    /\ packed = NoResult
    /\ unpacked = NoResult
    /\ loader = [r \in Partitions |-> NotLoading]

LoadPair ==
    \E r \in Partitions :
        /\ loader[r].status = "ok"
        /\ loader[r].pos < Len(Stream(config))
        /\ LET pair == Stream(config)[loader[r].pos + 1]
               res == load_pair(config, r, pair.name, pair.weight)
           IN  loader' = [loader EXCEPT ![r] =
                   [pos |-> @.pos + 1,
                    status |-> res.status,
                    skipped |-> IF res.skipped
                                THEN @.skipped \cup {pair.name}
                                ELSE @.skipped,
                    calls |-> @.calls \o res.calls]]
        /\ UNCHANGED <<config, attn, mlp, kv_cache, batch, call, packed,
                       unpacked>>

NextLoad == LoadPair

SpecLoad == InitLoad /\ [][NextLoad]_vars

\* ================================================================ claims

\* C1: pack places the flat rows at their (sequence, time) slots: slot
\* [i][t] of the rectangular tensor holds the flat row at (sum of the lengths
\* before sequence i) + t for every t below the sequence's length, and every
\* padding slot holds zero.
C1_PackPlacesRows ==
    packed.status = "ok" =>
        LET sl == sequence_lengths(batch)
            cl == cumulative_lengths(batch)
            x == hidden_states(batch)
        IN  \A i \in 1..batch_size(batch) :
                \A t \in 1..max_seq_length(batch) :
                    packed.inputs[i][t] =
                        IF t - 1 < sl[i] THEN x[cl[i] + t] ELSE 0

\* C2: the repacking round trip: for lengths summing to at most the number
\* of flat rows, pack completes and unpack of its result is exactly the flat
\* input, in the original row order.
C2_RoundTrip ==
    /\ packed # NoResult => packed.status = "ok"
    /\ unpacked.status = "ok" => unpacked.flat = hidden_states(batch)

\* C4: the pack step of a batched-mode call completes on every batch of the
\* PackedBatch invariant: the mask selects as many slots as there are flat
\* rows to scatter.
C4_PackCompletes ==
    packed # NoResult =>
        /\ packed.status = "ok"
        /\ Len(masked_indices(batch)) = batch.rows

\* The call at hand, made again with the sub-modules in mode disabled.
disabled_call ==
    LET a == [attn EXCEPT !.mode = Disabled]
        m == [mlp EXCEPT !.mode = Disabled]
        x == input_tensor(config, batch)
    IN  IF call.op = "attn"
        THEN LET r == attn_forward(a, x, call.kv_before, batch, call.indices)
             IN  [status |-> r.status, out |-> r.attn_output]
        ELSE IF call.op = "mlp"
        THEN LET r == mlp_forward(m, x, batch, call.indices)
             IN  [status |-> r.status, out |-> r.hidden_states]
        ELSE LET r == block_forward(a, m, x, call.kv_before, batch,
                                    call.indices)
             IN  [status |-> r.status, out |-> r.out]

\* The call at hand runs a sub-module in batched or clustered mode
\* (clustered under multi-query attention).
adapted_call ==
    /\ call.op # "none"
    /\ \/ /\ call.op \in {"attn", "block"}
          /\ \/ attn.mode = Batched
             \/ attn.mode = Clustered /\ attn.multi_query
       \/ /\ call.op \in {"mlp", "block"}
          /\ mlp.mode \in {Batched, Clustered}
          /\ attn.mode = Clustered => attn.multi_query

\* C3: mode isolation: a forward call of the attention module, of the
\* feed-forward module or of the block in batched or clustered mode returns
\* exactly what the same call returns in mode disabled.
C3_ModeIsolation ==
    (adapted_call /\ disabled_call.status = "ok") =>
        /\ call.status = "ok"
        /\ call.out = disabled_call.out

\* C7: the mode of a sub-module is always one of disabled, batched and
\* clustered.
C7_ModeIsEnumerated ==
    /\ attn.status = "ok" => attn.mode \in {Disabled, Batched, Clustered}
    /\ mlp.status = "ok" => mlp.mode \in {Disabled, Batched, Clustered}

\* C8: a sub-module whose mode is disabled holds no adapter matrices.
C8_DisabledHoldsNoAdapters ==
    /\ (attn.status = "ok" /\ attn.mode = Disabled) => attn.params = NoParams
    /\ (mlp.status = "ok" /\ mlp.mode = Disabled) => mlp.params = NoParams

\* C9: an attention module is constructed only when the head count divides
\* evenly over the partitions and the hidden size divides evenly over the
\* heads, so that head_dim * total_heads = hidden_size.
C9_BadConfigRejected ==
    attn.status = "ok" =>
        /\ Divides(config.world_size, config.num_attention_heads)
        /\ Divides(config.num_attention_heads, config.hidden_size)
        /\ attn.head_dim * config.num_attention_heads = config.hidden_size

\* C10: with clustered mode and attention that is not multi-query, every
\* forward call of the attention module (alone or inside the block) raises
\* before any projection or the attention kernel has run, and leaves the KV
\* cache as it was.
C10_ClusteredMhaFatal ==
    (call.op \in {"attn", "block"} /\ attn.mode = Clustered
        /\ ~attn.multi_query) =>
        /\ call.status = "NotImplementedError"
        /\ call.trace = <<>>
        /\ kv_cache = call.kv_before

C10_Witness ==
    /\ call.op = "attn"
    /\ attn.mode = Clustered
    /\ ~attn.multi_query
    /\ call.status = "NotImplementedError"

\* The load calls partition r has made under a parameter name.
CallsNamed(r, name) == SelectSeq(loader[r].calls, LAMBDA k : k.name = name)

attn_param(component, suffix) ==
    <<"transformer", "h", "0", "attn", component, suffix>>

\* The fused QKV pairs of the stream: position in the stream and suffix.
FusedPairs == {<<1, "weight">>, <<2, "bias">>}

\* The query rows partition r has loaded for a fused QKV pair: its own
\* parameter under multi-query, the leading third of the fused shard else.
loaded_query(r, suffix) ==
    IF config.multi_query
    THEN Concat([k \in 1..Len(CallsNamed(r, attn_param("c_attn_q", suffix)))
                   |-> CallsNamed(r, attn_param("c_attn_q", suffix))[k].weight])
    ELSE LET f == Concat([k \in 1..Len(CallsNamed(r, attn_param("c_attn", suffix)))
                   |-> CallsNamed(r, attn_param("c_attn", suffix))[k].weight])
         IN  SubSeq(f, 1, Len(f) \div 3)

\* C5: for every partition count that divides the head count, the query
\* shards of partitions 0..count-1, concatenated in rank order, are exactly
\* the first hidden_size rows of the fused tensor; under multi-query every
\* partition's key/value shard is the whole key block and value block.
C5_QueryShardsComplete ==
    \A p \in FusedPairs :
        (loader # <<>> /\ \A r \in Partitions : loader[r].pos >= p[1]) =>
            /\ Concat([i \in 1..config.world_size |->
                          loaded_query(i - 1, p[2])])
                 = [j \in 1..config.hidden_size |-> j]
            /\ config.multi_query =>
                 \A r \in Partitions :
                    LET kv == CallsNamed(r, attn_param("c_attn_kv", p[2])) IN
                    /\ Len(kv) = 1
                    /\ kv[1].weight =
                         [j \in 1..(Len(Stream(config)[p[1]].weight)
                                      - config.hidden_size)
                            |-> config.hidden_size + j]

\* C6: in multi-head mode the partition loads, under the fused parameter
\* name, the query, key and value rows of its head range in that order; in
\* multi-query mode it loads its query rows and the whole key/value rows into
\* two parameters of their own and nothing under the fused name.
C6_FusedOrSeparate ==
    \A p \in FusedPairs :
        loader # <<>> =>
            \A r \in Partitions :
                loader[r].pos >= p[1] =>
                    LET hsz == config.hidden_size \div config.num_attention_heads
                        n == (config.num_attention_heads \div config.world_size)
                                * hsz
                        lo == r * n
                        kvsz == hsz * config.num_attention_heads
                        fused == CallsNamed(r, attn_param("c_attn", p[2]))
                        q == CallsNamed(r, attn_param("c_attn_q", p[2]))
                        kv == CallsNamed(r, attn_param("c_attn_kv", p[2]))
                    IN  IF config.multi_query
                        THEN /\ Len(fused) = 0
                             /\ Len(q) = 1
                             /\ Len(kv) = 1
                             /\ q[1].weight = [j \in 1..n |-> lo + j]
                             /\ kv[1].weight =
                                  [j \in 1..(2 * hsz) |->
                                      config.hidden_size + j]
                        ELSE /\ Len(q) = 0
                             /\ Len(kv) = 0
                             /\ Len(fused) = 1
                             /\ fused[1].weight =
                                  [j \in 1..(3 * n) |->
                                      IF j <= n THEN lo + j
                                      ELSE IF j <= 2 * n
                                      THEN config.hidden_size + lo + (j - n)
                                      ELSE config.hidden_size + kvsz + lo
                                              + (j - 2 * n)]

C6_Witness ==
    /\ loader # <<>>
    /\ ~config.multi_query
    /\ config.world_size = 2
    /\ loader[1].pos >= 2
    /\ Len(CallsNamed(1, attn_param("c_attn", "bias"))) = 1

\* The skip rules as the specification states them: the tied output head,
\* and the attention bias marker.
skip_rule(name) ==
    \/ \E i \in 1..(Len(name) - 1) :
          name[i] = "lm_head" /\ name[i + 1] = "weight"
    \/ \E i \in 2..(Len(name) - 1) : name[i] = "attn" /\ name[i + 1] = "bias"

\* The name with the "transformer" prefix it may lack.
prefixed(name) ==
    IF name[1] = "transformer" THEN name ELSE <<"transformer">> \o name

\* The parameters a pair that is not skipped is loaded into: its
\* prefix-normalised name, or for the fused QKV pair under multi-query the
\* query parameter followed by the key/value parameter.
targets(name) ==
    IF config.multi_query /\ \E i \in 1..Len(name) : name[i] = "c_attn"
    THEN <<[i \in 1..Len(prefixed(name)) |->
               IF prefixed(name)[i] = "c_attn" THEN "c_attn_q"
               ELSE prefixed(name)[i]],
           [i \in 1..Len(prefixed(name)) |->
               IF prefixed(name)[i] = "c_attn" THEN "c_attn_kv"
               ELSE prefixed(name)[i]]>>
    ELSE <<prefixed(name)>>

\* C11: every pair of the weight stream a partition has gone through is
\* skipped without any load exactly when its name matches the tied output
\* head rule or holds the attention bias marker (the fused QKV bias is not
\* such a name and is loaded); every other pair is loaded once into each
\* parameter of its prefix-normalised name, and when one of these is missing
\* from the parameter table the loading stops there with a lookup error.
C11_SkipsExactlyTwoKinds ==
    loader # <<>> =>
        \A r \in Partitions : \A k \in 1..loader[r].pos :
            LET name == Stream(config)[k].name
                tg == targets(name)
                missing == {i \in 1..Len(tg) : tg[i] \notin state_dict(config)}
            IN  /\ name \in loader[r].skipped <=> skip_rule(name)
                /\ skip_rule(name) =>
                      \A i \in 1..Len(tg) : Len(CallsNamed(r, tg[i])) = 0
                /\ (~skip_rule(name) /\ missing = {}) =>
                      \A i \in 1..Len(tg) : Len(CallsNamed(r, tg[i])) = 1
                /\ (~skip_rule(name) /\ missing # {}) =>
                      /\ loader[r].status = "KeyError"
                      /\ loader[r].pos = k
                      /\ \A i \in missing : Len(CallsNamed(r, tg[i])) = 0
                /\ (k < loader[r].pos) =>
                      (skip_rule(name) \/ missing = {})

C11_Witness ==
    /\ loader # <<>>
    /\ loader[0].status = "KeyError"
    /\ loader[0].pos = Len(Stream(config))
    /\ Cardinality(loader[0].skipped) = 2
    /\ \E k \in 1..Len(loader[0].calls) :
          loader[0].calls[k].name = prefixed(qkv_bias_name)
             \/ loader[0].calls[k].name
                   = <<"transformer", "h", "0", "attn", "c_attn_q", "bias">>

\* The lengths of the claim: prompt_lens with the rows beyond
\* num_valid_tokens added to the last one; one row per sequence when the
\* batch has no prompt.
adjusted_lengths ==
    IF Len(batch.prompt_lens) > 0
    THEN [i \in 1..Len(batch.prompt_lens) |->
            IF i = Len(batch.prompt_lens)
            THEN batch.prompt_lens[i] + (batch.rows - batch.num_valid_tokens)
            ELSE batch.prompt_lens[i]]
    ELSE [i \in 1..batch.rows |-> 1]

\* C12: the adjusted row indices at the slots the mask selects, in
\* (sequence, time) order, are exactly 0, 1, ..., S-1 for S the sum of the
\* adjusted lengths: slot (i, t) of a sequence longer than t holds the sum
\* of the lengths before i plus t, the mask has S True entries, and S is at
\* most batch_size * max_seq_length. With no prompt batch_size is the number
\* of rows, max_seq_length is 1 and row i maps to slot (i, 0).
C12_RowIndicesExact ==
    packed # NoResult =>
        LET S == SeqSum(adjusted_lengths)
            m == mask(batch)
            a == adjusted_row_indices(batch)
        IN  /\ masked_indices(batch) = [k \in 1..S |-> k - 1]
            /\ Cardinality({p \in (1..batch_size(batch))
                                    \X (1..max_seq_length(batch)) :
                               m[p[1]][p[2]]}) = S
            /\ S <= batch_size(batch) * max_seq_length(batch)
            /\ batch_size(batch) = Len(adjusted_lengths)
            /\ \A i \in 1..batch_size(batch) :
                  \A t \in 1..max_seq_length(batch) :
                     /\ m[i][t] <=> (t - 1 < adjusted_lengths[i])
                     /\ m[i][t] =>
                           a[i][t] = SeqSum(SubSeq(adjusted_lengths, 1, i - 1))
                                        + (t - 1)
            /\ Len(batch.prompt_lens) = 0 =>
                  /\ batch_size(batch) = batch.rows
                  /\ max_seq_length(batch) = 1
                  /\ a = [i \in 1..batch.rows |-> <<i - 1>>]

\* A ragged batch of two prompts whose last length absorbs padding.
C12_Witness ==
    /\ packed # NoResult
    /\ Len(batch.prompt_lens) = 2
    /\ batch.rows > batch.num_valid_tokens
    /\ adjusted_lengths[1] # adjusted_lengths[2]

\* A pure decode step of several rows.
C12_WitnessDecode ==
    /\ packed # NoResult
    /\ Len(batch.prompt_lens) = 0
    /\ batch.rows > 1

\* The first position of step in a trace, 0 when it never ran.
step_at(trace, step) ==
    IF \E k \in 1..Len(trace) : trace[k] = step
    THEN CHOOSE k \in 1..Len(trace) :
            trace[k] = step /\ \A j \in 1..(k - 1) : trace[j] # step
    ELSE 0

IsPrefix(s, t) == Len(s) <= Len(t) /\ s = SubSeq(t, 1, Len(s))

\* The steps of a whole batched-mode call of the attention module and of
\* the feed-forward module, in the order the code runs them.
attn_batched_steps ==
    <<"pack", "bmm_AB", "bmm_CD">>
        \o (IF attn.multi_query THEN <<"c_attn_q", "c_attn_kv">>
            ELSE <<"c_attn">>)
        \o <<"attn", "pack", "bmm_EF", "c_proj">>

mlp_batched_steps ==
    <<"pack", "bmm_AB", "c_fc", "act", "pack", "bmm_CD", "c_proj">>

shape2(rows, cols) == <<rows, cols>>

shape3(rank, width) == <<rank, 10, width>>

\* C14: whenever a sub-module is in batched or clustered mode, each adapter
\* matrix its forward call reads (A to F in the attention module, A to D in
\* the feed-forward module) exists with the shape that mode builds from the
\* module's current rank, whatever set_mode and unset_mode calls came
\* before.
C14_AdaptersMatchModeAndRank ==
    /\ (attn.status = "ok" /\ attn.mode = Batched) =>
          /\ DOMAIN attn.params = {"A", "B", "C", "D", "E", "F"}
          /\ attn.params["A"] = shape2(attn.hidden_size, attn.rank)
          /\ attn.params["B"] = shape2(attn.rank, attn.hidden_size)
          /\ attn.params["C"] = shape2(attn.hidden_size, attn.rank)
          /\ attn.params["D"] = shape2(attn.rank, 2 * attn.kv_dim)
          /\ attn.params["E"] = shape2(attn.hidden_size, attn.rank)
          /\ attn.params["F"] = shape2(attn.rank, attn.hidden_size)
    /\ (attn.status = "ok" /\ attn.mode = Clustered) =>
          /\ DOMAIN attn.params = {"A", "B", "C", "D", "E", "F"}
          /\ \A n \in {"A", "B", "C", "E", "F"} :
                attn.params[n] = shape3(attn.rank, attn.hidden_size)
          /\ attn.params["D"] = shape3(attn.rank, 2 * attn.kv_dim)
    /\ (mlp.status = "ok" /\ mlp.mode = Batched) =>
          /\ DOMAIN mlp.params = {"A", "B", "C", "D"}
          /\ mlp.params["A"] = shape2(mlp.hidden_size, mlp.rank)
          /\ mlp.params["B"] = shape2(mlp.rank, mlp.intermediate_size)
          /\ mlp.params["C"] = shape2(mlp.intermediate_size, mlp.rank)
          /\ mlp.params["D"] = shape2(mlp.rank, mlp.hidden_size)
    /\ (mlp.status = "ok" /\ mlp.mode = Clustered) =>
          /\ DOMAIN mlp.params = {"A", "B", "C", "D"}
          /\ mlp.params["A"] = shape3(mlp.rank, mlp.hidden_size)
          /\ mlp.params["B"] = shape3(mlp.rank, mlp.intermediate_size)
          /\ mlp.params["C"] = shape3(mlp.rank, mlp.intermediate_size)
          /\ mlp.params["D"] = shape3(mlp.rank, mlp.hidden_size)

\* Both sub-modules adapted, in different modes and with different ranks.
C14_Witness ==
    /\ attn.status = "ok"
    /\ mlp.status = "ok"
    /\ attn.mode = Clustered
    /\ attn.rank = MaxRank
    /\ mlp.mode = Batched
    /\ mlp.rank = 1

\* The steps of a whole clustered-mode call, in the order the code runs
\* them (the attention module under multi-query).
attn_clustered_steps ==
    <<"plora_AC", "c_attn_q", "c_attn_kv", "plora_BD", "attn", "plora_E",
      "c_proj", "plora_F">>

mlp_clustered_steps ==
    <<"plora_A", "c_fc", "plora_B", "act", "plora_C", "c_proj", "plora_D">>

\* The steps the call at hand runs when nothing raises.
call_steps ==
    LET a == IF attn.mode = Batched THEN attn_batched_steps
             ELSE IF attn.mode = Clustered THEN attn_clustered_steps
             ELSE (IF attn.multi_query THEN <<"c_attn_q", "c_attn_kv">>
                   ELSE <<"c_attn">>) \o <<"attn", "c_proj">>
        f == IF mlp.mode = Batched THEN mlp_batched_steps
             ELSE IF mlp.mode = Clustered THEN mlp_clustered_steps
             ELSE <<"c_fc", "act", "c_proj">>
    IN  IF call.op = "attn" THEN a
        ELSE IF call.op = "mlp" THEN f
        ELSE a \o f

\* The adapter multiplications among the steps.
adapter_steps ==
    {"bmm_AB", "bmm_CD", "bmm_EF", "plora_AC", "plora_BD", "plora_E",
     "plora_F", "plora_A", "plora_B", "plora_C", "plora_D"}

\* C15: in batched and in clustered mode, for every partition count that
\* divides the head count, no forward call fails in an adapter
\* multiplication: a call that raises a shape error has not stopped at an
\* adapter step, the feature dimension of each adapter matrix being the
\* last dimension of the tensor it is applied to.
C15_AdapterDimsMatch ==
    (/\ call.op \in {"attn", "mlp", "block"}
     /\ adapted_call
     /\ call.status = "RuntimeError"
     /\ IsPrefix(call.trace, call_steps)
     /\ Len(call.trace) < Len(call_steps))
        => call_steps[Len(call.trace) + 1] \notin adapter_steps

====
